---- MODULE Spec2Model ----
(***************************************************************************)
(* The CoinChangeCalculator component (React): its state hooks, the health *)
(* probe, the calculate request and the form handlers, as a state machine. *)
(* One action is one event handler (or one continuation of an async        *)
(* function after an await), run to its end together with the re-render    *)
(* and the effects it causes.                                              *)
(*                                                                         *)
(* Money is counted in cents (0.01 is 1, 1000.00 is 100000); a text is a   *)
(* sequence of one-character strings.                                      *)
(***************************************************************************)
EXTENDS Integers, Sequences, FiniteSets, TLC

VARIABLES
    mounted,                \* the mount effect has run
    amount,                 \* useState<string>('')
    selectedDenominations,  \* useState<number[]>([])
    result,                 \* useState<CCResponse | null>(null): <<>> or <<r>>
    error,                  \* useState<string>('')
    loading,                \* useState<boolean>(false)
    apiUrl,                 \* useState<string>(default URL)
    connectionStatus,       \* 'checking' | 'connected' | 'disconnected'
    healthInFlight,         \* the GET .../health requests not yet settled:
                            \* how many there are to each base URL
    calcInFlight,           \* the POST .../calculate requests not yet settled:
                            \* of each, the base URL it went to
    urlProbe,               \* history: the probe that the last change of apiUrl
                            \* issued has not settled yet
    urlStatus,              \* history: the connection state as the runs of
                            \* checkApiHealth for the current base URL left it
    lastOp                  \* history: the handler that ran last and its outcome

vars == <<mounted, amount, selectedDenominations, result, error, loading,
          apiUrl, connectionStatus, healthInFlight, calcInFlight, urlProbe,
          urlStatus, lastOp>>

(***************************************************************************)
(* Bounds of the model.                                                    *)
(***************************************************************************)
\* health probes that may be outstanding at once
MaxProbes == 2
\* the user ticks and unticks the first MaxToggle coins of the catalog
MaxToggle == 1

(***************************************************************************)
(* Texts and numbers.                                                      *)
(***************************************************************************)
Digits == {"0", "1", "2", "3", "4", "5", "6", "7", "8", "9"}

DigitVal(c) ==
    CASE c = "0" -> 0 [] c = "1" -> 1 [] c = "2" -> 2 [] c = "3" -> 3
      [] c = "4" -> 4 [] c = "5" -> 5 [] c = "6" -> 6 [] c = "7" -> 7
      [] c = "8" -> 8 [] c = "9" -> 9

RECURSIVE Pow10(_)
Pow10(n) == IF n = 0 THEN 1 ELSE 10 * Pow10(n - 1)

\* the first index >= i of s that holds no digit (Len(s) + 1 when none)
RECURSIVE DigitRun(_, _)
DigitRun(s, i) ==
    IF i <= Len(s) /\ s[i] \in Digits THEN DigitRun(s, i + 1) ELSE i

\* the decimal value of the digits s[a], ..., s[b-1]
RECURSIVE DigitsVal(_, _, _)
DigitsVal(s, a, b) ==
    IF a >= b THEN 0 ELSE DigitsVal(s, a, b - 1) * 10 + DigitVal(s[b - 1])

\* The scan of the longest prefix of s that is a decimal literal
\* ([+-] digits [. digits] [e [+-] digits]), as parseFloat reads it.
ScanNumber(s) ==
    LET signed  == Len(s) >= 1 /\ s[1] \in {"-", "+"}
        i0      == IF signed THEN 2 ELSE 1
        i1      == DigitRun(s, i0)
        hasDot  == i1 <= Len(s) /\ s[i1] = "."
        f0      == IF hasDot THEN i1 + 1 ELSE i1
        f1      == IF hasDot THEN DigitRun(s, f0) ELSE i1
        intLen  == i1 - i0
        fracLen == f1 - f0
        hasE    == f1 <= Len(s) /\ s[f1] \in {"e", "E"}
        eSigned == hasE /\ f1 + 1 <= Len(s) /\ s[f1 + 1] \in {"-", "+"}
        e0      == IF eSigned THEN f1 + 2 ELSE f1 + 1
        e1      == IF hasE THEN DigitRun(s, e0) ELSE f1
        expOk   == hasE /\ e1 > e0
        expVal  == IF expOk THEN DigitsVal(s, e0, e1) ELSE 0
        expNeg  == expOk /\ eSigned /\ s[f1 + 1] = "-"
        mant    == DigitsVal(s, i0, i1) * Pow10(fracLen) + DigitsVal(s, f0, f1)
    IN  [ok      |-> intLen + fracLen > 0,
         neg     |-> signed /\ s[1] = "-",
         plus    |-> signed /\ s[1] = "+",
         intLen  |-> intLen,
         hasDot  |-> hasDot,
         fracLen |-> fracLen,
         end     |-> IF expOk THEN e1 ELSE f1,
         num     |-> mant * (IF expNeg THEN 1 ELSE Pow10(expVal)),
         den     |-> Pow10(fracLen) * (IF expNeg THEN Pow10(expVal) ELSE 1)]

\* A number is NaN or the exact fraction num / den (den > 0).
NaN == [nan |-> TRUE, num |-> 0, den |-> 1]

parseFloat(s) ==
    LET p == ScanNumber(s)
    IN  IF ~p.ok THEN NaN
        ELSE [nan |-> FALSE, num |-> IF p.neg THEN 0 - p.num ELSE p.num,
              den |-> p.den]

isNaN(x) == x.nan

\* x < n and x > n for an integer n; every comparison with NaN is false
LessThan(x, n) == ~x.nan /\ x.num < n * x.den
GreaterThan(x, n) == ~x.nan /\ x.num > n * x.den

\* <input type="number">: the value the element reports is the typed text when
\* that is a valid floating-point number, and the empty string otherwise.
numberInputValue(typed) ==
    LET p == ScanNumber(typed)
    IN  IF /\ p.ok
           /\ ~p.plus
           /\ (p.hasDot => p.fracLen > 0)
           /\ p.end = Len(typed) + 1
        THEN typed
        ELSE <<>>

(***************************************************************************)
(* The values the model draws from.                                        *)
(***************************************************************************)
T0        == <<"0">>
T10000    == <<"1", "0", "0", "0", "0">>
T10000_01 == <<"1", "0", "0", "0", "0", ".", "0", "1">>
TNeg001   == <<"-", "0", ".", "0", "1">>
T1e       == <<"1", "e">>
Tabc      == <<"a", "b", "c">>
T12abc    == <<"1", "2", "a", "b", "c">>
T5dot     == <<"5", ".">>

\* what the user may type into the amount field
AmountTexts == {<<>>, T0, T10000, T10000_01, TNeg001, T1e, Tabc, T12abc, T5dot}

DefaultUrl == "http://localhost:8080"
OtherUrl   == "http://other:8080"
Urls       == {DefaultUrl, OtherUrl}

Null == <<>>
Some(x) == <<x>>

\* bodies of 2xx answers of the calculate endpoint (CCResponse)
Results ==
    {[coins |-> <<[denomination |-> 20, count |-> 2],
                  [denomination |-> 1, count |-> 1]>>, totalCoins |-> 3],
     [coins |-> <<>>, totalCoins |-> 0]}

\* bodies of non-2xx answers (ErrorResponse); the message may be missing
ErrorBodies ==
    {[hasMessage |-> FALSE, message |-> ""],
     [hasMessage |-> TRUE,  message |-> ""],
     [hasMessage |-> TRUE,  message |-> "Amount must be positive"]}

\* how a fetch settles: an answer with a status, or a rejection
HealthOutcomes == {"ok", "non2xx", "typeError", "otherError"}

(***************************************************************************)
(* The error texts of the component.                                       *)
(***************************************************************************)
MsgHealthNotResponding ==
    "API is not responding. Please check if the server is running on the correct port."
MsgHealthCors ==
    "CORS Error: Unable to connect to API. Please ensure CORS is configured on your server and it's running on the correct port."
MsgHealthUnable ==
    "Unable to connect to API. Please check if the server is running."
MsgMissingInput ==
    "Please enter an amount and select at least one denomination."
MsgInvalidAmount ==
    "Please enter a valid amount between 0 and 10000."
MsgCalcFallback ==
    "An error occurred while calculating."
MsgCalcCors ==
    "CORS Error: Unable to connect to API. Please ensure CORS is configured on your server."
MsgCalcFailed ==
    "Failed to connect to the API. Please check if the server is running."

(***************************************************************************)
(* The denominations.                                                      *)
(***************************************************************************)
validDenominations ==
    <<1, 5, 10, 20, 50, 100, 200, 500, 1000, 5000, 10000, 100000>>

\* v put into the ascending sequence s, after the elements equal to it
RECURSIVE InsertSorted(_, _)
InsertSorted(s, v) ==
    IF s = <<>> THEN <<v>>
    ELSE IF v < Head(s) THEN <<v>> \o s
    ELSE <<Head(s)>> \o InsertSorted(Tail(s), v)

\* Array.prototype.sort((a, b) => a - b); the sorted tail is bound as a value
\* t, which is computed once
RECURSIVE SortAsc(_)
SortAsc(s) ==
    IF s = <<>> THEN <<>>
    ELSE CHOOSE r \in {InsertSorted(t, Head(s)) : t \in {SortAsc(Tail(s))}} : TRUE

\* prev.filter(d => d !== denomination)
RECURSIVE Without(_, _)
Without(s, d) ==
    IF s = <<>> THEN <<>>
    ELSE IF Head(s) = d THEN Without(Tail(s), d)
    ELSE <<Head(s)>> \o Without(Tail(s), d)

\* mutant: the coin is appended and the selection left unsorted
handleDenominationChange_appendOnly(prev, denomination, checked) ==
    IF checked THEN Append(prev, denomination)
    ELSE Without(prev, denomination)

handleDenominationChange(prev, denomination, checked) ==
    IF checked THEN SortAsc(Append(prev, denomination))
    ELSE Without(prev, denomination)

\* the checkbox of a coin shows whether the coin is among the selected ones
isSelected(denomination) ==
    \E i \in 1..Len(selectedDenominations) : selectedDenominations[i] = denomination

Op(name, outcome, arg) == [op |-> name, outcome |-> outcome, arg |-> arg]

(***************************************************************************)
(* The initial render: the useState defaults, before the mount effect.     *)
(***************************************************************************)
Init ==
    /\ mounted = FALSE
    /\ amount = <<>>
    /\ selectedDenominations = <<>>
    /\ result = Null
    /\ error = ""
    /\ loading = FALSE
    /\ apiUrl = DefaultUrl
    /\ connectionStatus = "checking"
    /\ healthInFlight = [u \in Urls |-> 0]
    /\ calcInFlight = <<>>
    /\ urlProbe = FALSE
    /\ urlStatus = "checking"
    /\ lastOp = Op("render", "", <<>>)

(***************************************************************************)
(* checkApiHealth: up to the fetch, and from the fetch's settling on.      *)
(***************************************************************************)
\* the number of requests in inFlight to the URLs of S
RECURSIVE Outstanding(_, _)
Outstanding(inFlight, S) ==
    IF S = {} THEN 0
    ELSE LET u == CHOOSE x \in S : TRUE
         IN  inFlight[u] + Outstanding(inFlight, S \ {u})

\* a health probe may start (a bound of the model, not of the component)
ProbeRoom == Outstanding(healthInFlight, Urls) < MaxProbes

\* the requests outstanding once checkApiHealth has issued its GET to url
healthIssued(inFlight, url) == [inFlight EXCEPT ![url] = @ + 1]

\* setConnectionStatus('checking'), then the fetch
checkApiHealthStart(url) ==
    /\ connectionStatus' = "checking"
    /\ healthInFlight' = healthIssued(healthInFlight, url)
    /\ urlStatus' = "checking"

\* mutant: an answer is taken for a success whatever its status
healthSettled_anyAnswerOk(o) ==
    CASE o \in {"ok", "non2xx"} -> [status |-> "connected", error |-> ""]
      [] o = "typeError" -> [status |-> "disconnected", error |-> MsgHealthCors]
      [] OTHER           -> [status |-> "disconnected", error |-> MsgHealthUnable]

\* mutant: a success leaves the error text as it was
healthSettled_keepsError(o) ==
    CASE o = "ok"        -> [status |-> "connected",    error |-> error]
      [] o = "non2xx"    -> [status |-> "disconnected", error |-> MsgHealthNotResponding]
      [] o = "typeError" -> [status |-> "disconnected", error |-> MsgHealthCors]
      [] OTHER           -> [status |-> "disconnected", error |-> MsgHealthUnable]

\* what checkApiHealth sets once its fetch has settled with outcome o
healthSettled(o) ==
    CASE o = "ok"        -> [status |-> "connected",    error |-> ""]
      [] o = "non2xx"    -> [status |-> "disconnected", error |-> MsgHealthNotResponding]
      [] o = "typeError" -> [status |-> "disconnected", error |-> MsgHealthCors]
      [] OTHER           -> [status |-> "disconnected", error |-> MsgHealthUnable]

\* useEffect(() => { checkApiHealth() }, [apiUrl]) on mount
Mount ==
    /\ ~mounted
    /\ mounted' = TRUE
    /\ checkApiHealthStart(apiUrl)
    /\ lastOp' = Op("mount", "", <<>>)
    /\ UNCHANGED <<amount, selectedDenominations, result, error, loading,
                   apiUrl, calcInFlight, urlProbe>>

\* mutant: the effect does not depend on apiUrl
effectOnApiUrl_mountOnly(inFlight, url) == inFlight

\* what the effect's dependency list makes of a change of the base URL:
\* the requests outstanding after the re-render with the new URL
effectOnApiUrl(inFlight, url) == healthIssued(inFlight, url)

\* onChange of the API URL field: setApiUrl, and the effect that depends on it
setApiUrl(url) ==
    /\ mounted
    /\ ProbeRoom
    /\ url # apiUrl
    /\ apiUrl' = url
    /\ connectionStatus' = "checking"
    /\ healthInFlight' = effectOnApiUrl(healthInFlight, url)
    /\ urlProbe' = (healthInFlight' # healthInFlight)
    /\ urlStatus' = "checking"
    /\ lastOp' = Op("setApiUrl", "", <<>>)
    /\ UNCHANGED <<mounted, amount, selectedDenominations, result, error,
                   loading, calcInFlight>>

\* onClick of the Refresh button
Refresh ==
    /\ mounted
    /\ ProbeRoom
    /\ checkApiHealthStart(apiUrl)
    /\ lastOp' = Op("refresh", "", <<>>)
    /\ UNCHANGED <<mounted, amount, selectedDenominations, result, error,
                   loading, apiUrl, calcInFlight, urlProbe>>

\* mutant: a probe that does not find the service up discards the result
HealthDone_dropsResult(url, own, o) ==
    /\ healthInFlight[url] > 0
    /\ IF own THEN urlProbe /\ url = apiUrl
              ELSE healthInFlight[url] > (IF urlProbe /\ url = apiUrl THEN 1 ELSE 0)
    /\ healthInFlight' = [healthInFlight EXCEPT ![url] = @ - 1]
    /\ connectionStatus' = healthSettled(o).status
    /\ error' = healthSettled(o).error
    /\ result' = IF o = "ok" THEN result ELSE Null
    /\ urlProbe' = (urlProbe /\ ~own)
    /\ urlStatus' = IF url = apiUrl THEN healthSettled(o).status ELSE urlStatus
    /\ lastOp' = Op("healthDone", o, <<[hadError |-> error # ""]>>)
    /\ UNCHANGED <<mounted, amount, selectedDenominations, loading, apiUrl,
                   calcInFlight>>

\* The fetch of an outstanding probe to url settles with outcome o; own says
\* whether it is the probe that the last change of apiUrl issued.
HealthDone(url, own, o) ==
    /\ healthInFlight[url] > 0
    /\ IF own THEN urlProbe /\ url = apiUrl
              ELSE healthInFlight[url] > (IF urlProbe /\ url = apiUrl THEN 1 ELSE 0)
    /\ healthInFlight' = [healthInFlight EXCEPT ![url] = @ - 1]
    /\ connectionStatus' = healthSettled(o).status
    /\ error' = healthSettled(o).error
    /\ urlProbe' = (urlProbe /\ ~own)
    /\ urlStatus' = IF url = apiUrl THEN healthSettled(o).status ELSE urlStatus
    /\ lastOp' = Op("healthDone", o, <<[hadError |-> error # ""]>>)
    /\ UNCHANGED <<mounted, amount, selectedDenominations, result, loading,
                   apiUrl, calcInFlight>>

(***************************************************************************)
(* The form.                                                               *)
(***************************************************************************)
\* onChange of the amount field
setAmount(typed) ==
    /\ mounted
    /\ amount' = numberInputValue(typed)
    /\ lastOp' = Op("edit", "", <<>>)
    /\ UNCHANGED <<mounted, selectedDenominations, result, error, loading,
                   apiUrl, connectionStatus, healthInFlight, calcInFlight,
                   urlProbe,
                   urlStatus>>

\* mutant: the checkbox reports "checked" whatever it shows
ToggleDenomination_alwaysChecked(d) ==
    /\ mounted
    /\ selectedDenominations' =
           handleDenominationChange(selectedDenominations, d, TRUE)
    /\ lastOp' = Op("edit", "", <<>>)
    /\ UNCHANGED <<mounted, amount, result, error, loading, apiUrl,
                   connectionStatus, healthInFlight, calcInFlight, urlProbe,
                   urlStatus>>

\* onChange of a coin's checkbox, which reports the opposite of what it shows
ToggleDenomination(d) ==
    /\ mounted
    /\ selectedDenominations' =
           handleDenominationChange(selectedDenominations, d, ~isSelected(d))
    /\ lastOp' = Op("edit", "", <<>>)
    /\ UNCHANGED <<mounted, amount, result, error, loading, apiUrl,
                   connectionStatus, healthInFlight, calcInFlight, urlProbe,
                   urlStatus>>

selectAllDenominations ==
    /\ mounted
    /\ selectedDenominations' = validDenominations
    /\ lastOp' = Op("edit", "", <<>>)
    /\ UNCHANGED <<mounted, amount, result, error, loading, apiUrl,
                   connectionStatus, healthInFlight, calcInFlight, urlProbe,
                   urlStatus>>

clearAllDenominations ==
    /\ mounted
    /\ selectedDenominations' = <<>>
    /\ lastOp' = Op("edit", "", <<>>)
    /\ UNCHANGED <<mounted, amount, result, error, loading, apiUrl,
                   connectionStatus, healthInFlight, calcInFlight, urlProbe,
                   urlStatus>>

\* mutant: the Clear All button is disabled like the Calculate button
clearForm_disabledLikeCalculate ==
    /\ mounted
    /\ ~(loading \/ connectionStatus = "disconnected")
    /\ amount' = <<>>
    /\ selectedDenominations' = <<>>
    /\ result' = Null
    /\ error' = ""
    /\ lastOp' = Op("clearForm", "", <<>>)
    /\ UNCHANGED <<mounted, loading, apiUrl, connectionStatus, healthInFlight,
                   calcInFlight, urlProbe,
                   urlStatus>>

clearForm ==
    /\ mounted
    /\ amount' = <<>>
    /\ selectedDenominations' = <<>>
    /\ result' = Null
    /\ error' = ""
    /\ lastOp' = Op("clearForm", "", <<>>)
    /\ UNCHANGED <<mounted, loading, apiUrl, connectionStatus, healthInFlight,
                   calcInFlight, urlProbe,
                   urlStatus>>

(***************************************************************************)
(* calculateCoins: up to the fetch, and from the fetch's settling on.      *)
(***************************************************************************)
\* mutant: the button stays enabled while a request is pending
CalculateDisabled_notWhileLoading == connectionStatus = "disconnected"

\* disabled={loading || connectionStatus === 'disconnected'}
CalculateDisabled == loading \/ connectionStatus = "disconnected"

\* mutant: the selection is not looked at
inputMissing_amountOnly(text, denominations) == text = <<>>

\* !amount || selectedDenominations.length === 0
inputMissing(text, denominations) == text = <<>> \/ denominations = <<>>

\* mutant: no upper limit
amountInvalid_noUpperLimit(amountNum) ==
    isNaN(amountNum) \/ LessThan(amountNum, 0)

\* mutant: the limits themselves are refused
amountInvalid_exclusive(amountNum) ==
    isNaN(amountNum) \/ ~GreaterThan(amountNum, 0) \/ ~LessThan(amountNum, 10000)

\* isNaN(amountNum) || amountNum < 0 || amountNum > 10000
amountInvalid(amountNum) ==
    isNaN(amountNum) \/ LessThan(amountNum, 0) \/ GreaterThan(amountNum, 10000)

\* the CCRequest and where it is posted
calcRequest(amountNum) ==
    [url |-> apiUrl, amount |-> amountNum, denominations |-> selectedDenominations]

\* what is kept of a request while it is outstanding: the code after the
\* await reads the response only, so the body is recorded where it is posted
calcPending(request) == [url |-> request.url]

\* onClick of the Calculate button
calculateCoins ==
    /\ mounted
    /\ ~CalculateDisabled
    /\ IF inputMissing(amount, selectedDenominations)
       THEN /\ error' = MsgMissingInput
            /\ lastOp' = Op("calculate", "missing", <<>>)
            /\ UNCHANGED <<loading, result, calcInFlight>>
       ELSE IF amountInvalid(parseFloat(amount))
       THEN /\ error' = MsgInvalidAmount
            /\ lastOp' = Op("calculate", "invalid", <<>>)
            /\ UNCHANGED <<loading, result, calcInFlight>>
       ELSE /\ loading' = TRUE
            /\ error' = ""
            /\ result' = Null
            /\ calcInFlight' =
                   Append(calcInFlight, calcPending(calcRequest(parseFloat(amount))))
            /\ lastOp' = Op("calculate", "posted", <<calcRequest(parseFloat(amount))>>)
    /\ UNCHANGED <<mounted, amount, selectedDenominations, apiUrl,
                   connectionStatus, healthInFlight, urlProbe,
                   urlStatus>>

\* mutant: no fallback text
messageOrFallback_verbatim(body) == body.message

\* errorData.message || 'An error occurred while calculating.'
messageOrFallback(body) ==
    IF body.hasMessage /\ body.message # "" THEN body.message ELSE MsgCalcFallback

\* mutant: the catch block does not look at the kind of failure
calcCatchMessage_oneText(o) == MsgCalcFailed

\* the error text of the catch block
calcCatchMessage(o) == IF o = "typeError" THEN MsgCalcCors ELSE MsgCalcFailed

RemoveAt(s, i) == SubSeq(s, 1, i - 1) \o SubSeq(s, i + 1, Len(s))

\* mutant: setLoading(false) is in the catch block, not in a finally block
CalcOk_loadingLeft(i, r) ==
    /\ i \in 1..Len(calcInFlight)
    /\ calcInFlight' = RemoveAt(calcInFlight, i)
    /\ result' = Some(r)
    /\ lastOp' = Op("calcDone", "ok", <<r>>)
    /\ UNCHANGED <<mounted, amount, selectedDenominations, error, loading,
                   apiUrl, connectionStatus, healthInFlight, urlProbe,
                   urlStatus>>

\* the answer to the i-th outstanding request has status 2xx and body r
CalcOk(i, r) ==
    /\ i \in 1..Len(calcInFlight)
    /\ calcInFlight' = RemoveAt(calcInFlight, i)
    /\ result' = Some(r)
    /\ loading' = FALSE
    /\ lastOp' = Op("calcDone", "ok", <<r>>)
    /\ UNCHANGED <<mounted, amount, selectedDenominations, error, apiUrl,
                   connectionStatus, healthInFlight, urlProbe,
                   urlStatus>>

\* the answer has a non-2xx status and the JSON body b
CalcNon2xx(i, b) ==
    /\ i \in 1..Len(calcInFlight)
    /\ calcInFlight' = RemoveAt(calcInFlight, i)
    /\ error' = messageOrFallback(b)
    /\ loading' = FALSE
    /\ lastOp' = Op("calcDone", "non2xx", <<b>>)
    /\ UNCHANGED <<mounted, amount, selectedDenominations, result, apiUrl,
                   connectionStatus, healthInFlight, urlProbe,
                   urlStatus>>

\* mutant: the handler has no finally block
CalcThrows_noFinally(i, o) ==
    /\ i \in 1..Len(calcInFlight)
    /\ calcInFlight' = RemoveAt(calcInFlight, i)
    /\ error' = calcCatchMessage(o)
    /\ lastOp' = Op("calcDone", o, <<>>)
    /\ UNCHANGED <<mounted, amount, selectedDenominations, result, loading,
                   apiUrl, connectionStatus, healthInFlight, urlProbe,
                   urlStatus>>

\* mutant: the catch block posts the request again and keeps waiting
CalcThrows_retries(i, o) ==
    /\ i \in 1..Len(calcInFlight)
    /\ calcInFlight' = Append(RemoveAt(calcInFlight, i), calcInFlight[i])
    /\ lastOp' = Op("calcDone", o, <<>>)
    /\ UNCHANGED <<mounted, amount, selectedDenominations, result, error,
                   loading, apiUrl, connectionStatus, healthInFlight, urlProbe,
                   urlStatus>>

\* the fetch rejects ("typeError": a TypeError saying 'Failed to fetch';
\* "otherError": anything else), or response.json() throws on the body of an
\* answer of either status ("badBody2xx", "badBodyNon2xx")
CalcThrows(i, o) ==
    /\ i \in 1..Len(calcInFlight)
    /\ calcInFlight' = RemoveAt(calcInFlight, i)
    /\ error' = calcCatchMessage(o)
    /\ loading' = FALSE
    /\ lastOp' = Op("calcDone", o, <<>>)
    /\ UNCHANGED <<mounted, amount, selectedDenominations, result, apiUrl,
                   connectionStatus, healthInFlight, urlProbe,
                   urlStatus>>

CalcThrowOutcomes == {"typeError", "otherError", "badBody2xx", "badBodyNon2xx"}

(***************************************************************************)
(* The component.                                                          *)
(***************************************************************************)
Next ==
    \/ Mount
    \/ \E u \in Urls : setApiUrl(u)
    \/ Refresh
    \/ \E u \in Urls, own \in BOOLEAN, o \in HealthOutcomes : HealthDone(u, own, o)
    \/ \E t \in AmountTexts : setAmount(t)
    \/ \E k \in 1..MaxToggle : ToggleDenomination(validDenominations[k])
    \/ selectAllDenominations
    \/ clearAllDenominations
    \/ clearForm
    \/ calculateCoins
    \/ \E i \in 1..Len(calcInFlight), r \in Results : CalcOk(i, r)
    \/ \E i \in 1..Len(calcInFlight), b \in ErrorBodies : CalcNon2xx(i, b)
    \/ \E i \in 1..Len(calcInFlight), o \in CalcThrowOutcomes : CalcThrows(i, o)

Spec == Init /\ [][Next]_vars

\* an outstanding calculate request settles, in one of the ways it can
CalcSettles ==
    \E i \in 1..Len(calcInFlight) :
        \/ \E r \in Results : CalcOk(i, r)
        \/ \E b \in ErrorBodies : CalcNon2xx(i, b)
        \/ \E o \in CalcThrowOutcomes : CalcThrows(i, o)

\* the component on a network that answers or fails every calculate request
\* in the end: fetch settles and the handler resumes after each await
FairSpec == Spec /\ WF_vars(CalcSettles)

(***************************************************************************)
(* Properties.                                                             *)
(***************************************************************************)
\* the step is a run of calculateCoins
CalculateStep == lastOp'.op = "calculate"

\* the number a text stands for lies outside [0, 10000], or the text stands
\* for no number
OutOfRange(text) ==
    LET x == parseFloat(text)
    IN  x.nan \/ x.num < 0 \/ x.num > 10000 * x.den

ValidationErrors == {MsgMissingInput, MsgInvalidAmount}

\* C1: when the amount text is not a number, or is a number below 0 or above
\* 10000, a run of calculateCoins issues no request and leaves a validation
\* error as the error text.
C1_InvalidAmountNotPosted ==
    [][(CalculateStep /\ OutOfRange(amount))
         => (calcInFlight' = calcInFlight /\ error' \in ValidationErrors)]_vars

\* calculateCoins has just refused an amount above 10000
C1_Witness ==
    /\ lastOp = Op("calculate", "invalid", <<>>)
    /\ amount = T10000_01
    /\ selectedDenominations # <<>>
    /\ error = MsgInvalidAmount
    /\ calcInFlight = <<>>

\* C2: when no denomination is selected, a run of calculateCoins issues no
\* request, whatever the amount text is.
C2_EmptySelectionNotPosted ==
    [][(CalculateStep /\ selectedDenominations = <<>>)
         => calcInFlight' = calcInFlight]_vars

\* calculateCoins has just refused a valid amount for want of a denomination
C2_Witness ==
    /\ lastOp = Op("calculate", "missing", <<>>)
    /\ amount = T10000
    /\ selectedDenominations = <<>>
    /\ calcInFlight = <<>>

\* C3: at most one calculate request is outstanding, and while one is,
\* calculateCoins cannot be entered.
C3_SingleCalcInFlight ==
    /\ Len(calcInFlight) <= 1
    /\ calcInFlight # <<>> => ~ENABLED calculateCoins

\* a request is outstanding, the service is connected and the user has just
\* edited the form
C3_Witness ==
    /\ Len(calcInFlight) = 1
    /\ connectionStatus = "connected"
    /\ lastOp.op = "edit"
    /\ amount = T0
    /\ selectedDenominations # <<>>

\* C4 (as claimed): at most one health probe is outstanding.
C4_SingleProbeInFlight == Outstanding(healthInFlight, Urls) <= 1

\* C5 (as claimed): from a change of the base URL until the probe issued for
\* the new URL settles, the connection state is 'checking', and no probe
\* issued before the change sets it.
C5_CheckingUntilNewProbeSettles ==
    urlProbe => connectionStatus = "checking"

\* C6: the mount runs once and issues exactly one probe, for the base URL;
\* every change of the base URL issues exactly one, for the new URL; and a
\* step that issues a probe issues one, and is the mount, a change of the
\* base URL or a Refresh.
C6_ProbePerTrigger ==
    [][/\ lastOp'.op = "mount" =>
            /\ ~mounted
            /\ healthInFlight' = [healthInFlight EXCEPT ![apiUrl] = @ + 1]
       /\ mounted => mounted' /\ lastOp'.op # "mount"
       /\ apiUrl' # apiUrl =>
            healthInFlight' = [healthInFlight EXCEPT ![apiUrl'] = @ + 1]
       /\ (\E u \in Urls : healthInFlight'[u] > healthInFlight[u]) =>
            /\ Outstanding(healthInFlight', Urls)
                  = Outstanding(healthInFlight, Urls) + 1
            /\ lastOp'.op \in {"mount", "setApiUrl", "refresh"}]_vars

\* the base URL has just been changed, and the one probe outstanding is the
\* one for the new URL
C6_Witness ==
    /\ lastOp.op = "setApiUrl"
    /\ apiUrl = OtherUrl
    /\ healthInFlight[OtherUrl] = 1
    /\ healthInFlight[DefaultUrl] = 0

\* C7: a probe answered with a non-2xx status leaves the connection state
\* 'disconnected', and while it is 'disconnected' calculateCoins cannot be
\* entered.
C7_Non2xxDisconnects ==
    /\ (lastOp.op = "healthDone" /\ lastOp.outcome = "non2xx")
          => connectionStatus = "disconnected"
    /\ connectionStatus = "disconnected" => ~ENABLED calculateCoins

\* a probe has just been answered with a non-2xx status while the form was
\* ready to be submitted and no request was pending
C7_Witness ==
    /\ lastOp.op = "healthDone"
    /\ lastOp.outcome = "non2xx"
    /\ connectionStatus = "disconnected"
    /\ ~loading
    /\ amount = T0
    /\ selectedDenominations # <<>>

\* C8: a probe answered with a 2xx status leaves the connection state
\* 'connected' and the error text empty, whatever the error text was.
C8_OkConnectsAndClearsError ==
    (lastOp.op = "healthDone" /\ lastOp.outcome = "ok")
        => (connectionStatus = "connected" /\ error = "")

\* a probe has just been answered with a 2xx status while an error text was set
C8_Witness ==
    /\ lastOp.op = "healthDone"
    /\ lastOp.outcome = "ok"
    /\ lastOp.arg = <<[hadError |-> TRUE]>>
    /\ error = ""

\* the number a text stands for lies in [0, 10000]
InRange(text) ==
    LET x == parseFloat(text)
    IN  ~x.nan /\ 0 <= x.num /\ x.num <= 10000 * x.den

\* C9: when the amount text stands for a number in [0, 10000] and a
\* denomination is selected, a run of calculateCoins issues exactly one POST,
\* to the base URL, with that number and the selected denominations.
C9_ValidInputPostedOnce ==
    [][(CalculateStep /\ InRange(amount) /\ selectedDenominations # <<>>)
         => /\ calcInFlight' = Append(calcInFlight, [url |-> apiUrl])
            /\ lastOp' =
                   Op("calculate", "posted",
                      <<[url           |-> apiUrl,
                         amount        |-> parseFloat(amount),
                         denominations |-> selectedDenominations]>>)]_vars

\* calculateCoins has just posted the upper limit, 10000
C9_Witness ==
    /\ lastOp = Op("calculate", "posted",
                   <<[url           |-> apiUrl,
                      amount        |-> [nan |-> FALSE, num |-> 10000, den |-> 1],
                      denominations |-> validDenominations]>>)
    /\ amount = T10000
    /\ calcInFlight = <<[url |-> apiUrl]>>

\* C10: when a calculate request is answered with a non-2xx status, the error
\* text is the body's message, or 'An error occurred while calculating.' when
\* the body has none or an empty one, and no result is held; when the body of
\* such an answer is no JSON, the error text is that of a failed connection
\* and no result is held either.
C10_Non2xxShowsMessage ==
    /\ (lastOp.op = "calcDone" /\ lastOp.outcome = "non2xx") =>
          /\ error = IF lastOp.arg[1].hasMessage /\ lastOp.arg[1].message # ""
                     THEN lastOp.arg[1].message
                     ELSE "An error occurred while calculating."
          /\ result = Null
    /\ (lastOp.op = "calcDone" /\ lastOp.outcome = "badBodyNon2xx") =>
          /\ error = MsgCalcFailed
          /\ result = Null

\* a request has just been answered with status 400 and a message
C10_Witness ==
    /\ lastOp.op = "calcDone"
    /\ lastOp.outcome = "non2xx"
    /\ lastOp.arg = <<[hasMessage |-> TRUE, message |-> "Amount must be positive"]>>
    /\ error = "Amount must be positive"
    /\ result = Null

\* C11 (as claimed): when a calculate request is answered with a 2xx status,
\* the result held is the body of the answer and the error text is empty,
\* whatever health probes settled while the request was outstanding.
C11_OkHoldsResultAndNoError ==
    (lastOp.op = "calcDone" /\ lastOp.outcome = "ok")
        => (result = lastOp.arg /\ error = "")

\* the number of places of s that hold d
Occurrences(s, d) == Cardinality({i \in 1..Len(s) : s[i] = d})

\* no denomination is selected more than once
NoDuplicates ==
    \A i, j \in 1..Len(selectedDenominations) :
        i # j => selectedDenominations[i] # selectedDenominations[j]

C13_SelectionAscending ==
    \A i \in 1..(Len(selectedDenominations) - 1) :
        selectedDenominations[i] <= selectedDenominations[i + 1]

\* every coin but the first is selected: the first was removed after
\* select-all, and is added back in front of the others by its checkbox
C13_Witness ==
    /\ selectedDenominations = Tail(validDenominations)
    /\ lastOp.op = "edit"
    /\ ~isSelected(validDenominations[1])

\* C14 (as claimed): a result and an error text are never held together.
C14_ResultXorError == ~(result # Null /\ error # "")

\* C16: when the calculate request fails in transport, the error text is the
\* cross-origin/network text if the failure is a TypeError that says
\* 'Failed to fetch', and the other connection-failure text for every other
\* failure; in both cases no result is held.
C16_TransportFailureMessage ==
    (lastOp.op = "calcDone" /\ lastOp.outcome \in {"typeError", "otherError"})
        => /\ result = Null
           /\ lastOp.outcome = "typeError" => error = MsgCalcCors
           /\ lastOp.outcome = "otherError" => error = MsgCalcFailed
           /\ MsgCalcCors # MsgCalcFailed

\* the fetch of a calculate request has just been rejected with the
\* TypeError 'Failed to fetch'
C16_Witness ==
    /\ lastOp = Op("calcDone", "typeError", <<>>)
    /\ error = MsgCalcCors
    /\ result = Null
    /\ ~loading

\* the requests outstanding, probes and calculate requests together
Requests(health, calc) == Outstanding(health, Urls) + Len(calc)

\* C15: nothing is retried.  A run of calculateCoins issues one POST if it
\* accepts the input and none if it rejects it; a step in which a request
\* settles, with whatever outcome, issues no request; and every step that
\* issues a request issues exactly one and is the mount, a change of the base
\* URL, a Refresh or a run of calculateCoins.
C15_NoAutomaticRetry ==
    [][/\ lastOp'.op = "calculate" =>
            /\ healthInFlight' = healthInFlight
            /\ Len(calcInFlight') = Len(calcInFlight)
                   + (IF lastOp'.outcome = "posted" THEN 1 ELSE 0)
       /\ lastOp'.op \in {"healthDone", "calcDone"} =>
            /\ \A u \in Urls : healthInFlight'[u] <= healthInFlight[u]
            /\ Len(calcInFlight') <= Len(calcInFlight)
            /\ Requests(healthInFlight', calcInFlight')
                   = Requests(healthInFlight, calcInFlight) - 1
       /\ Requests(healthInFlight', calcInFlight')
              > Requests(healthInFlight, calcInFlight) =>
            /\ Requests(healthInFlight', calcInFlight')
                   = Requests(healthInFlight, calcInFlight) + 1
            /\ lastOp'.op \in {"mount", "setApiUrl", "refresh", "calculate"}]_vars

\* a calculate request has just failed in transport, and no request of any
\* kind is outstanding
C15_Witness ==
    /\ lastOp = Op("calcDone", "otherError", <<>>)
    /\ error = MsgCalcFailed
    /\ Requests(healthInFlight, calcInFlight) = 0

\* C17: while the connection state is 'disconnected' the amount can be
\* edited, the selection changed, the base URL changed and the form cleared;
\* of the form's actions only calculateCoins cannot be entered.
C17_DisconnectedBlocksOnlyCalculate ==
    (mounted /\ connectionStatus = "disconnected") =>
        /\ ENABLED setAmount(T0)
        /\ \A k \in 1..MaxToggle : ENABLED ToggleDenomination(validDenominations[k])
        /\ ENABLED selectAllDenominations
        /\ ENABLED clearAllDenominations
        /\ ENABLED clearForm
        /\ ProbeRoom => \A u \in Urls \ {apiUrl} : ENABLED setApiUrl(u)
        /\ ~ENABLED calculateCoins

\* the form has just been cleared while the connection state is
\* 'disconnected'
C17_Witness ==
    /\ connectionStatus = "disconnected"
    /\ lastOp.op = "clearForm"
    /\ ProbeRoom
    /\ ~loading

\* C18: on a network that settles every calculate request, a request that
\* was issued is followed by loading being false again, whether the answer is
\* 2xx, non-2xx, has a body that does not parse, or the fetch is rejected.
C18_LoadingEnds == loading ~> ~loading

\* a calculate request has just ended on a 2xx answer whose body does not
\* parse, and loading is false
C18_Witness ==
    /\ lastOp = Op("calcDone", "badBody2xx", <<>>)
    /\ ~loading
    /\ calcInFlight = <<>>

\* C19 (as claimed): once no health probe is outstanding, the connection state
\* is what the probes for the current base URL made it, in whatever order the
\* answers of the probes came in.
C19_StateOfCurrentUrl ==
    (mounted /\ Outstanding(healthInFlight, Urls) = 0)
        => connectionStatus = urlStatus

\* C20 (as claimed): after clearForm the result stays null and the amount and
\* the selection stay empty until a handler of the user runs: a request that
\* was outstanding at the clearing and settles next changes none of them.
C20_ClearedUntilUserActs ==
    [][(lastOp.op = "clearForm" /\ lastOp'.op \in {"healthDone", "calcDone"})
         => /\ result' = Null
            /\ amount' = <<>>
            /\ selectedDenominations' = <<>>]_vars

\* C21: loading is true exactly when one calculate request is outstanding:
\* never true with none outstanding, never false with one outstanding, and
\* there are never two.
C21_LoadingIffOutstanding ==
    /\ loading <=> calcInFlight # <<>>
    /\ loading => Len(calcInFlight) = 1

\* the form was cleared while a request is outstanding: loading is still true
C21_Witness ==
    /\ loading
    /\ Len(calcInFlight) = 1
    /\ lastOp.op = "clearForm"
    /\ amount = <<>>

\* the step leaves the form, the result, loading and the calculate requests
\* as they are
FormAndResultKept ==
    /\ result' = result
    /\ loading' = loading
    /\ amount' = amount
    /\ selectedDenominations' = selectedDenominations
    /\ calcInFlight' = calcInFlight

\* C22: a run of checkApiHealth changes nothing but the connection state and
\* the error text.  Its start, from the mount or the Refresh button, and its
\* end, with whatever outcome, leave the result, loading, the amount, the
\* selection, the base URL and the calculate requests as they are; the start
\* that follows a change of the base URL leaves all of these but the base
\* URL, which the change itself has set, and leaves the error text too.
C22_ProbeFrame ==
    [][/\ lastOp'.op \in {"mount", "refresh", "healthDone"} =>
            FormAndResultKept /\ apiUrl' = apiUrl
       /\ lastOp'.op \in {"mount", "refresh", "setApiUrl"} =>
            FormAndResultKept /\ error' = error /\ connectionStatus' = "checking"
       /\ lastOp'.op = "healthDone" =>
            connectionStatus' \in {"connected", "disconnected"}]_vars

\* a probe has just failed while a result is shown and the form is filled in
C22_Witness ==
    /\ lastOp.op = "healthDone"
    /\ lastOp.outcome = "typeError"
    /\ result # Null
    /\ amount = T10000
    /\ selectedDenominations # <<>>
    /\ error = MsgHealthCors

====
